---- MODULE Spec2Model ----
(***************************************************************************)
(* HTTP-to-MCP wrapper (src/index.js): the shared session state            *)
(* (mcpInitialized, sessionId), initializeMCPClient, callMCPServer and the *)
(* express routes that call it.  A step of the model is one run of the     *)
(* event loop: from the arrival of an HTTP request or of an upstream       *)
(* answer to the next await on a network call.                             *)
(***************************************************************************)
EXTENDS Integers, Sequences, FiniteSets, Bags, TLC

\* ------------------------------------------------------------------ bounds
MaxProcs == 2       \* HTTP requests that can be in flight together
MaxCalls == 2       \* HTTP requests served during one run
MaxTicks == 1       \* milliseconds the clock can advance during one run
StartMillis == 50   \* Date.now() when the process starts

Procs == 1..MaxProcs

\* --------------------------------------------------- strings and JS values
\* A JS value that sessionId or a header can hold.  kind "string" is the
\* string made of the characters tok, kind "session_" is the template string
\* `session_${millis}_${tok}`.
Null == [kind |-> "null", millis |-> 0, tok |-> <<>>]
Undefined == [kind |-> "undefined", millis |-> 0, tok |-> <<>>]
Str(tok) == [kind |-> "string", millis |-> 0, tok |-> tok]
Template(millis, tok) == [kind |-> "session_", millis |-> millis, tok |-> tok]

\* JS truthiness of such a value: null, undefined and '' are falsy.
Truthy(v) == v.kind = "session_" \/ (v.kind = "string" /\ v.tok # <<>>)

Min(a, b) == IF a < b THEN a ELSE b

\* String.prototype.substring(a, b) on a sequence of characters.
Substring(s, a, b) == SubSeq(s, a + 1, Min(b, Len(s)))

\* Math.random() is modelled by the base-36 digits of its fraction; the
\* value 0 has none.  Number.prototype.toString(36) of it.
RandomFractions == {<<>>, <<"k", "4">>}
ConcurrentFractions == {<<"k", "4">>}
ToString36(frac) == IF frac = <<>> THEN <<"0">> ELSE <<"0", ".">> \o frac

\* The characters of the class [a-f0-9-] under the /i flag, among the
\* characters the model uses.
HexChars == {"a", "b", "c", "f", "A", "0", "1", "2", "3", "9", "-"}

RECURSIVE HexPrefix(_)
HexPrefix(s) ==
  IF s = <<>> \/ Head(s) \notin HexChars THEN <<>>
  ELSE <<Head(s)>> \o HexPrefix(Tail(s))

\* data.match(/sessionId[=:]([a-f0-9-]+)/i): data is a string that holds the
\* marker 'sessionId=' or 'sessionId:' (marker) followed by the characters
\* after.  The result is the captured group, or <<>> when nothing matches.
MatchSessionId(data) ==
  IF data.marker THEN HexPrefix(data.after) ELSE <<>>

\* ------------------------------------------------------ upstream's answers
\* Response bodies: typeof data, whether it holds 'event: message', and the
\* sessionId token it may embed.
JsonData == [type |-> "object", sse |-> FALSE, marker |-> FALSE, after |-> <<>>]
TextData(sse, marker, after) ==
  [type |-> "string", sse |-> sse, marker |-> marker, after |-> after]

\* Successful answers to the 'initialize' POST: headers 'mcp-session-id'
\* (h1) and 'x-session-id' (h2), and the body.
InitResponses ==
  { [h1 |-> Str(<<"a", "1">>), h2 |-> Str(<<"b", "2">>), data |-> JsonData],
    [h1 |-> Str(<<>>), h2 |-> Str(<<"b", "2">>),
     data |-> TextData(TRUE, TRUE, <<"c", "3">>)],
    [h1 |-> Undefined, h2 |-> Undefined,
     data |-> TextData(TRUE, TRUE, <<"c", "3", "z">>)],
    [h1 |-> Undefined, h2 |-> Undefined, data |-> TextData(TRUE, TRUE, <<"z">>)],
    [h1 |-> Undefined, h2 |-> Undefined, data |-> JsonData] }

\* The answers to the 'initialize' POST that arrive while other requests are
\* in flight: a session header, and no session id at all.
ConcurrentInitResponses ==
  { [h1 |-> Str(<<"a", "1">>), h2 |-> Str(<<"b", "2">>), data |-> JsonData],
    [h1 |-> Undefined, h2 |-> Undefined, data |-> JsonData] }

\* Successful answers to an RPC POST.
RpcResponses == {JsonData, TextData(TRUE, FALSE, <<>>)}

\* Failures of an axios.post: a non-2xx answer (status # 0) or no answer at
\* all (status = 0), with the message of the Error that axios rejects with.
UpstreamErrors ==
  { [status |-> 503, message |-> "Request failed with status code 503"],
    [status |-> 0, message |-> "connect ECONNREFUSED"] }

\* The failure that occurs while other requests are in flight.
ConcurrentErrors ==
  { [status |-> 503, message |-> "Request failed with status code 503"] }

InitFailedMessage == "Failed to initialize MCP client"

\* ----------------------------------------------------------- HTTP boundary
\* JSON objects are functions from keys to values.
EmptyObj == [k \in {} |-> ""]

\* { ...a, ...b }
Spread(a, b) ==
  [k \in (DOMAIN a) \cup (DOMAIN b) |-> IF k \in DOMAIN b THEN b[k] ELSE a[k]]

\* Inbound HTTP requests: route, path parameter, and req.body (req.query for
\* GET /documents).
HttpReq(route, param, body) == [route |-> route, param |-> param, body |-> body]

HttpRequests ==
  { HttpReq("GET /health", "", EmptyObj),
    HttpReq("GET /tools", "", EmptyObj),
    HttpReq("GET /workspace/hierarchy", "", EmptyObj),
    HttpReq("POST /task", "", [name |-> "Test", list_id |-> "123"]),
    HttpReq("POST /task", "", EmptyObj),
    HttpReq("POST /task", "", [name |-> "get_task", method |-> "tools/list"]),
    HttpReq("GET /task/:taskId", "t1", EmptyObj),
    HttpReq("PUT /task/:taskId", "t1", [status |-> "done"]),
    HttpReq("POST /tasks/search", "", [list_ids |-> "123"]),
    HttpReq("POST /tasks/search", "", [detail_level |-> "detailed", limit |-> "100"]),
    HttpReq("GET /documents", "", EmptyObj),
    HttpReq("POST /document", "", [name |-> "Doc"]),
    HttpReq("GET /document/:docId/pages", "d1", EmptyObj),
    HttpReq("POST /call/:toolName", "foo_bar", [x |-> "1"]),
    HttpReq("POST /call/:toolName", "get_task", [taskId |-> "t1"]),
    HttpReq("POST /call/:toolName", "update_task", EmptyObj) }

\* The requests that arrive while others are in flight.
ConcurrentRequests ==
  { HttpReq("GET /tools", "", EmptyObj),
    HttpReq("POST /call/:toolName", "foo_bar", [x |-> "1"]) }

\* A 'tools/call' to which the wrapper adds its own optimization parameter.
ToolCallOptimized(name, arguments) ==
  [method |-> "tools/call",
   params |-> [name |-> name,
               arguments |-> Spread(arguments, [detail_level |-> "summary"])]]

\* The params of a 'tools/call': the tool's name and its arguments.
ToolCall(name, arguments) ==
  [method |-> "tools/call", params |-> [name |-> name, arguments |-> arguments]]

\* The callMCPServer(method, params) call each route handler makes.
\* A route table whose generic route dispatches to one known tool only.
RouteCallKnownTools(h) ==
  CASE h.route = "GET /tools" -> [method |-> "tools/list", params |-> EmptyObj]
    [] h.route = "GET /workspace/hierarchy" ->
         ToolCall("get_workspace_hierarchy", EmptyObj)
    [] h.route = "POST /task" -> ToolCall("create_task", h.body)
    [] h.route = "GET /task/:taskId" -> ToolCall("get_task", [taskId |-> h.param])
    [] h.route = "PUT /task/:taskId" ->
         ToolCall("update_task", Spread([taskId |-> h.param], h.body))
    [] h.route = "POST /tasks/search" -> ToolCall("get_workspace_tasks", h.body)
    [] h.route = "GET /documents" -> ToolCall("list_documents", h.body)
    [] h.route = "POST /document" -> ToolCall("create_document", h.body)
    [] h.route = "GET /document/:docId/pages" ->
         ToolCall("list_document_pages", [documentId |-> h.param])
    [] h.route = "POST /call/:toolName" -> ToolCall("get_task", h.body)

RouteCall(h) ==
  CASE h.route = "GET /tools" -> [method |-> "tools/list", params |-> EmptyObj]
    [] h.route = "GET /workspace/hierarchy" ->
         ToolCall("get_workspace_hierarchy", EmptyObj)
    [] h.route = "POST /task" -> ToolCall("create_task", h.body)
    [] h.route = "GET /task/:taskId" -> ToolCall("get_task", [taskId |-> h.param])
    [] h.route = "PUT /task/:taskId" ->
         ToolCall("update_task", Spread([taskId |-> h.param], h.body))
    [] h.route = "POST /tasks/search" -> ToolCall("get_workspace_tasks", h.body)
    [] h.route = "GET /documents" -> ToolCall("list_documents", h.body)
    [] h.route = "POST /document" -> ToolCall("create_document", h.body)
    [] h.route = "GET /document/:docId/pages" ->
         ToolCall("list_document_pages", [documentId |-> h.param])
    [] h.route = "POST /call/:toolName" -> ToolCall(h.param, h.body)

\* HTTP responses: res.json(result), res.status(500).json({error}), and the
\* liveness answer of /health.
NoResponse == [status |-> 0, kind |-> "none", error |-> "", result |-> JsonData]
\* An answer that hands the caller the message parsed out of the
\* event-stream frame instead of the body as received.
JsonResultUnframed(result) ==
  [status |-> 200, kind |-> "result", error |-> "",
   result |-> [result EXCEPT !.sse = FALSE]]
JsonResult(result) ==
  [status |-> 200, kind |-> "result", error |-> "", result |-> result]
ErrorResult(message) ==
  [status |-> 500, kind |-> "error", error |-> message, result |-> JsonData]
HealthResult ==
  [status |-> 200, kind |-> "healthy", error |-> "", result |-> JsonData]

\* ------------------------------------------------------------------- state
VARIABLES
  mcpInitialized,  \* src/index.js:14
  sessionId,       \* src/index.js:15
  now,             \* Date.now()
  pc,              \* per request: "idle", "awaitInit", "awaitRpc", "done"
  http,            \* per request: the inbound HTTP request
  resp,            \* per request: the HTTP response sent
  posted,          \* the POST sent upstream by the last step, if any
  sentIds,         \* bag of the JSON-RPC ids of all POSTs sent
  inv,             \* per request: history of its callMCPServer invocation,
                   \* and the session header of its RPC POST while in flight
  sessionFrom,     \* number of the handshake that set sessionId (0: none)
  lastOkHandshake, \* last handshake that succeeded since the last RPC failure
  ensure,          \* history of the initializeMCPClient calls
  nCalls,          \* HTTP requests served so far
  nHandshakes,     \* 'initialize' POSTs sent so far
  lastEvent,       \* what the last step was
  received,        \* the upstream's answer that the last step handled, if any
  enabledTools,    \* process.env.ENABLED_TOOLS || '' (src/index.js:279)
  anyFailure       \* whether a handshake or an RPC POST has failed so far

\* The state of the direct-first variant, src/unnamed/part_001.
VARIABLES
  directSessionId, \* src/unnamed/part_001:14, the variant's sessionId
  directBoot,      \* the initializeMCPSession call of line 237: "awaitSse", "done"
  directPc,        \* per request: "idle", "awaitDirect", "awaitSse",
                   \* "awaitMessages", "done"
  directHttp,      \* per request: the inbound HTTP request
  directResp,      \* per request: the HTTP response sent
  directSent,      \* the request sent upstream by the last step, if any
  directInv,       \* per request: history of its callMCPServer invocation
  directEvent,     \* what the last step handled
  directCalls      \* callMCPServer invocations started so far

directVars == <<directSessionId, directBoot, directPc, directHttp, directResp,
                directSent, directInv, directEvent, directCalls>>

vars == <<mcpInitialized, sessionId, now, pc, http, resp, posted, sentIds, inv,
          sessionFrom, lastOkHandshake, ensure, nCalls, nHandshakes, lastEvent,
          received, enabledTools, anyFailure, directVars>>

\* Values of the ENABLED_TOOLS environment variable.
EnabledToolsEnv == {"", "get_task,create_task"}

NoAnswer == [kind |-> "none", h1 |-> Undefined, h2 |-> Undefined, data |-> JsonData]
InitAnswer(res) == [kind |-> "initialize", h1 |-> res.h1, h2 |-> res.h2, data |-> res.data]
RpcAnswer(data) == [kind |-> "rpc", h1 |-> Undefined, h2 |-> Undefined, data |-> data]

HandshakeId == 1

NoPost == [kind |-> "none", jsonrpc |-> "", id |-> 0, method |-> "",
           params |-> EmptyObj, session |-> Undefined, proc |-> 0]

\* axios.post(`${MCP_SERVER_URL}/mcp`, {jsonrpc, id: 1, method: 'initialize', ...})
InitializePost(r) ==
  [kind |-> "handshake", jsonrpc |-> "2.0", id |-> HandshakeId,
   method |-> "initialize",
   params |-> [protocolVersion |-> "2024-11-05"], session |-> Undefined,
   proc |-> r]

\* An RPC POST that leaves params at its default {}.
RpcPostDefaultParams(r, call, millis, sid) ==
  [kind |-> "rpc", jsonrpc |-> "2.0", id |-> millis, method |-> call.method,
   params |-> EmptyObj, session |-> sid, proc |-> r]

\* An RPC POST without the 'mcp-session-id' header.
RpcPostNoHeader(r, call, millis, sid) ==
  [kind |-> "rpc", jsonrpc |-> "2.0", id |-> millis, method |-> call.method,
   params |-> call.params,
   session |-> Undefined, proc |-> r]

\* axios.post(`${MCP_SERVER_URL}/mcp`, {jsonrpc, id: Date.now(), method, params},
\*            {headers: {..., 'mcp-session-id': sessionId}})
RpcPost(r, call, millis, sid) ==
  [kind |-> "rpc", jsonrpc |-> "2.0", id |-> millis, method |-> call.method,
   params |-> call.params,
   session |-> sid, proc |-> r]

NoInvocation ==
  [sawReady |-> FALSE, afterFail |-> FALSE, staleFrom |-> 0, handshake |-> 0,
   initResult |-> "none", nHandshake |-> 0, nRpc |-> 0, header |-> Undefined,
   headerFrom |-> 0, rpcResult |-> "none", upstream |-> 0, invalidated |-> FALSE,
   discardedNewer |-> FALSE]

NoEnsure == [state |-> "none", proc |-> 0, handshakes |-> 0, pairHandshakes |-> 0]

Event(kind, r) == [kind |-> kind, proc |-> r]

\* A request the direct-first variant sends upstream: the POST to /mcp, the
\* GET to /sse, or the POST to /messages?sessionId=${sessionId}, whose URL
\* holds the text the template literal makes of sessionId ('null' for null).
NoDirectRequest ==
  [kind |-> "none", id |-> 0, method |-> "", params |-> EmptyObj,
   session |-> Undefined, proc |-> 0]
DirectPost(r, call, millis) ==
  [kind |-> "mcp", id |-> millis, method |-> call.method, params |-> call.params,
   session |-> Undefined, proc |-> r]
SseGet(r) ==
  [kind |-> "sse", id |-> 0, method |-> "", params |-> EmptyObj,
   session |-> Undefined, proc |-> r]
MessagesPost(r, call, millis, sid) ==
  [kind |-> "messages", id |-> millis, method |-> call.method,
   params |-> call.params, session |-> sid, proc |-> r]

\* History of one callMCPServer invocation of the variant.
NoDirectInvocation ==
  [afterFail |-> FALSE, cached |-> FALSE, directResult |-> "none", nDirect |-> 0,
   nSse |-> 0, nMessages |-> 0]

\* Lines 14 and 237: sessionId is null and the startup call of
\* initializeMCPSession awaits its GET /sse.
DirectInit ==
  /\ directSessionId = Null
  /\ directBoot = "awaitSse"
  /\ directPc = [r \in Procs |-> "idle"]
  /\ directHttp = [r \in Procs |-> HttpReq("", "", EmptyObj)]
  /\ directResp = [r \in Procs |-> NoResponse]
  /\ directSent = SseGet(0)
  /\ directInv = [r \in Procs |-> NoDirectInvocation]
  /\ directEvent = Event("init", 0)
  /\ directCalls = 0

InitEnv(env) ==
  /\ enabledTools = env
  /\ anyFailure = FALSE
  /\ received = NoAnswer
  /\ mcpInitialized = FALSE
  /\ sessionId = Null
  /\ now = StartMillis
  /\ pc = [r \in Procs |-> "idle"]
  /\ http = [r \in Procs |-> HttpReq("", "", EmptyObj)]
  /\ resp = [r \in Procs |-> NoResponse]
  /\ posted = NoPost
  /\ sentIds = EmptyBag
  /\ inv = [r \in Procs |-> NoInvocation]
  /\ sessionFrom = 0
  /\ lastOkHandshake = [handshake |-> 0, session |-> Undefined]
  /\ ensure = NoEnsure
  /\ nCalls = 0
  /\ nHandshakes = 0
  /\ lastEvent = Event("init", 0)
  /\ DirectInit

\* The process starts with ENABLED_TOOLS unset.
Init == InitEnv("")

\* The process starts with any value of ENABLED_TOOLS.
RouteInit == \E env \in EnabledToolsEnv : InitEnv(env)

\* ------------------------------------------------------ initializeMCPClient
\* Line 19: if (mcpInitialized && sessionId) return true;
FastPath(initialized, session) == initialized /\ Truthy(session)

\* Lines 51-61 without the fallback of lines 63-67.
SelectSessionIdNoFallback(res, millis, frac) ==
  LET fromHeaders == IF Truthy(res.h1) THEN res.h1 ELSE res.h2
      match == IF res.data.type = "string" THEN MatchSessionId(res.data) ELSE <<>>
  IN  IF ~Truthy(fromHeaders) /\ res.data.type = "string" /\ match # <<>>
      THEN Str(match) ELSE fromHeaders

\* Lines 51-67 with the two headers read in the other order.
SelectSessionIdSwapped(res, millis, frac) ==
  LET fromHeaders == IF Truthy(res.h2) THEN res.h2 ELSE res.h1
      match == IF res.data.type = "string" THEN MatchSessionId(res.data) ELSE <<>>
      fromData == IF ~Truthy(fromHeaders) /\ res.data.type = "string" /\ match # <<>>
                  THEN Str(match) ELSE fromHeaders
  IN  IF ~Truthy(fromData)
      THEN Template(millis, Substring(ToString36(frac), 2, 15))
      ELSE fromData

\* Lines 51-67: the session id kept after a successful handshake.
SelectSessionId(res, millis, frac) ==
  LET fromHeaders == IF Truthy(res.h1) THEN res.h1 ELSE res.h2
      match == IF res.data.type = "string" THEN MatchSessionId(res.data) ELSE <<>>
      fromData == IF ~Truthy(fromHeaders) /\ res.data.type = "string" /\ match # <<>>
                  THEN Str(match) ELSE fromHeaders
  IN  IF ~Truthy(fromData)
      THEN Template(millis, Substring(ToString36(frac), 2, 15))
      ELSE fromData

\* A first-writer-wins assignment: sessionId = sessionId || ...
AssignIfEmpty(old, new) == IF Truthy(old) THEN old ELSE new

\* Line 51: the assignment replaces whatever was cached.
Assign(old, new) == new

\* ------------------------------------------------------------ callMCPServer
\* A test that asks for a handshake only while sessionId is undefined; the
\* variable starts as null and is reset to null.
NeedsInitStrictUndefined(initialized, session) == session = Undefined

\* Line 98: if (!mcpInitialized || !sessionId)
NeedsInit(initialized, session) == ~initialized \/ ~Truthy(session)

\* A catch block that resets nothing, and one that resets only the flag.
KeepSession(initialized, session) == [initialized |-> initialized, session |-> session]
ResetFlagOnly(initialized, session) == [initialized |-> FALSE, session |-> session]

\* A catch block that clears the session id and leaves the flag set.
ResetSessionOnly(initialized, session) == [initialized |-> initialized, session |-> Null]

\* Lines 135-136: the session state after a failed RPC POST.
Invalidate(initialized, session) == [initialized |-> FALSE, session |-> Null]

\* History of the initializeMCPClient calls: a call that starts after the
\* previous one has returned, with no RPC failure since that one started,
\* records the handshakes the two sent together.
EnsureStart(r, handshakes) ==
  [state |-> IF handshakes = 0 THEN "done" ELSE "running", proc |-> r,
   handshakes |-> handshakes,
   pairHandshakes |-> IF ensure.state = "done"
                      THEN ensure.handshakes + handshakes ELSE 0]
EnsureReturn(r) ==
  IF ensure.state = "running" /\ ensure.proc = r
  THEN [ensure EXCEPT !.state = "done"] ELSE ensure

\* The slot an arriving HTTP request takes: the lowest one with no request in
\* flight (0 when all are taken).
FreeSlot ==
  LET free == {q \in Procs : pc[q] \in {"idle", "done"}}
  IN  IF free = {} THEN 0 ELSE CHOOSE q \in free : \A p \in free : q <= p

\* An HTTP request for a route other than /health arrives at slot r: the
\* handler calls callMCPServer, which runs up to its first await.
Start(r, h) ==
  /\ r = FreeSlot
  /\ nCalls < MaxCalls
  /\ h.route # "GET /health"
  /\ LET call == RouteCall(h)
         needs == NeedsInit(mcpInitialized, sessionId)
         fast == FastPath(mcpInitialized, sessionId)
         hs == needs /\ ~fast
         begun == [NoInvocation EXCEPT
                     !.sawReady = ~needs,
                     !.afterFail = (lastEvent.kind = "rpcFail"),
                     !.staleFrom = IF lastEvent.kind = "rpcFail"
                                   THEN inv[lastEvent.proc].headerFrom ELSE 0]
     IN  /\ http' = [http EXCEPT ![r] = h]
         /\ resp' = [resp EXCEPT ![r] = NoResponse]
         /\ nCalls' = nCalls + 1
         /\ received' = NoAnswer
         /\ lastEvent' = Event("start", r)
         /\ ensure' = IF needs THEN EnsureStart(r, IF hs THEN 1 ELSE 0) ELSE ensure
         /\ IF hs
            THEN /\ pc' = [pc EXCEPT ![r] = "awaitInit"]
                 /\ posted' = InitializePost(r)
                 /\ sentIds' = sentIds (+) SetToBag({HandshakeId})
                 /\ nHandshakes' = nHandshakes + 1
                 /\ inv' = [inv EXCEPT ![r] =
                      [begun EXCEPT !.handshake = nHandshakes + 1,
                                    !.initResult = "pending", !.nHandshake = 1]]
            ELSE /\ pc' = [pc EXCEPT ![r] = "awaitRpc"]
                 /\ posted' = RpcPost(r, call, now, sessionId)
                 /\ sentIds' = sentIds (+) SetToBag({now})
                 /\ nHandshakes' = nHandshakes
                 /\ inv' = [inv EXCEPT ![r] =
                      [begun EXCEPT !.initResult = IF needs THEN "true" ELSE "none",
                                    !.nRpc = 1, !.header = posted'.session,
                                    !.headerFrom = sessionFrom,
                                    !.rpcResult = "pending"]]
  /\ UNCHANGED <<mcpInitialized, sessionId, now, sessionFrom, lastOkHandshake,
                 enabledTools, anyFailure, directVars>>

\* The upstream answers the 'initialize' POST of r with a 2xx: lines 45-79,
\* then callMCPServer resumes at line 105 and sends its RPC POST.
HandshakeOk(r, res, frac) ==
  /\ pc[r] = "awaitInit"
  /\ LET selected == SelectSessionId(res, now, frac)
         cached == Assign(sessionId, selected)
     IN  /\ sessionId' = cached
         /\ mcpInitialized' = TRUE
         /\ sessionFrom' = inv[r].handshake
         /\ lastOkHandshake' = [handshake |-> inv[r].handshake, session |-> selected]
         /\ posted' = RpcPost(r, RouteCall(http[r]), now, cached)
         /\ sentIds' = sentIds (+) SetToBag({now})
         /\ inv' = [inv EXCEPT ![r] =
              [@ EXCEPT !.initResult = "true", !.nRpc = @ + 1,
                        !.header = posted'.session,
                        !.headerFrom = inv[r].handshake, !.rpcResult = "pending"]]
  /\ pc' = [pc EXCEPT ![r] = "awaitRpc"]
  /\ ensure' = EnsureReturn(r)
  /\ received' = InitAnswer(res)
  /\ UNCHANGED <<enabledTools, anyFailure, directVars>>
  /\ lastEvent' = Event("hsOk", r)
  /\ UNCHANGED <<now, http, resp, nCalls, nHandshakes>>

\* A callMCPServer that ignores the result of initializeMCPClient and goes on
\* to its RPC POST.
HandshakeFailProceeds(r, err) ==
  /\ pc[r] = "awaitInit"
  /\ pc' = [pc EXCEPT ![r] = "awaitRpc"]
  /\ inv' = [inv EXCEPT ![r] =
       [@ EXCEPT !.initResult = "false", !.nRpc = @ + 1, !.header = sessionId,
                 !.headerFrom = sessionFrom, !.rpcResult = "pending"]]
  /\ posted' = RpcPost(r, RouteCall(http[r]), now, sessionId)
  /\ sentIds' = sentIds (+) SetToBag({now})
  /\ ensure' = EnsureReturn(r)
  /\ received' = NoAnswer
  /\ anyFailure' = TRUE
  /\ UNCHANGED <<enabledTools, directVars>>
  /\ lastEvent' = Event("hsFail", r)
  /\ UNCHANGED <<mcpInitialized, sessionId, now, http, resp, sessionFrom,
                 lastOkHandshake, nCalls, nHandshakes>>

\* A catch block of the handshake that resets the session state as the
\* catch block of the RPC POST does.
HandshakeFailResets(r, err) ==
  /\ pc[r] = "awaitInit"
  /\ mcpInitialized' = FALSE
  /\ sessionId' = Null
  /\ pc' = [pc EXCEPT ![r] = "done"]
  /\ inv' = [inv EXCEPT ![r] = [@ EXCEPT !.initResult = "false"]]
  /\ resp' = [resp EXCEPT ![r] = ErrorResult(InitFailedMessage)]
  /\ posted' = NoPost
  /\ ensure' = EnsureReturn(r)
  /\ received' = NoAnswer
  /\ anyFailure' = TRUE
  /\ UNCHANGED <<enabledTools, directVars>>
  /\ lastEvent' = Event("hsFail", r)
  /\ UNCHANGED <<now, http, sentIds, sessionFrom, lastOkHandshake, nCalls,
                 nHandshakes>>

\* The 'initialize' POST of r fails: lines 80-88 return false, line 101
\* throws, and the route handler answers 500.
HandshakeFail(r, err) ==
  /\ pc[r] = "awaitInit"
  /\ pc' = [pc EXCEPT ![r] = "done"]
  /\ inv' = [inv EXCEPT ![r] = [@ EXCEPT !.initResult = "false"]]
  /\ resp' = [resp EXCEPT ![r] = ErrorResult(InitFailedMessage)]
  /\ posted' = NoPost
  /\ ensure' = EnsureReturn(r)
  /\ received' = NoAnswer
  /\ anyFailure' = TRUE
  /\ UNCHANGED <<enabledTools, directVars>>
  /\ lastEvent' = Event("hsFail", r)
  /\ UNCHANGED <<mcpInitialized, sessionId, now, http, sentIds, sessionFrom,
                 lastOkHandshake, nCalls, nHandshakes>>

\* A successful RPC POST that uses the session up: the next call has to
\* acquire a new one.
RpcOkDropsSession(r, data) ==
  /\ pc[r] = "awaitRpc"
  /\ mcpInitialized' = FALSE
  /\ sessionId' = Null
  /\ pc' = [pc EXCEPT ![r] = "done"]
  /\ inv' = [inv EXCEPT ![r] = [@ EXCEPT !.rpcResult = "ok", !.header = Undefined]]
  /\ resp' = [resp EXCEPT ![r] = JsonResult(data)]
  /\ posted' = NoPost
  /\ received' = RpcAnswer(data)
  /\ UNCHANGED <<enabledTools, anyFailure, directVars>>
  /\ lastEvent' = Event("rpcOk", r)
  /\ UNCHANGED <<now, http, sentIds, sessionFrom,
                 lastOkHandshake, ensure, nCalls, nHandshakes>>

\* The upstream answers the RPC POST of r with a 2xx: line 126 returns
\* response.data and the route handler sends it with res.json.
RpcOk(r, data) ==
  /\ pc[r] = "awaitRpc"
  /\ pc' = [pc EXCEPT ![r] = "done"]
  /\ inv' = [inv EXCEPT ![r] = [@ EXCEPT !.rpcResult = "ok", !.header = Undefined]]
  /\ resp' = [resp EXCEPT ![r] = JsonResult(data)]
  /\ posted' = NoPost
  /\ received' = RpcAnswer(data)
  /\ UNCHANGED <<enabledTools, anyFailure, directVars>>
  /\ lastEvent' = Event("rpcOk", r)
  /\ UNCHANGED <<mcpInitialized, sessionId, now, http, sentIds, sessionFrom,
                 lastOkHandshake, ensure, nCalls, nHandshakes>>

\* A catch block that resets the session state and starts over with a new
\* handshake instead of rethrowing.
RpcFailRetries(r, err) ==
  /\ pc[r] = "awaitRpc"
  /\ mcpInitialized' = FALSE
  /\ sessionId' = Null
  /\ sessionFrom' = 0
  /\ lastOkHandshake' = [handshake |-> 0, session |-> Undefined]
  /\ pc' = [pc EXCEPT ![r] = "awaitInit"]
  /\ inv' = [inv EXCEPT ![r] =
       [@ EXCEPT !.rpcResult = "failed", !.upstream = err.status,
                 !.header = Undefined, !.handshake = nHandshakes + 1, !.nHandshake = @ + 1,
                 !.initResult = "pending"]]
  /\ posted' = InitializePost(r)
  /\ sentIds' = sentIds (+) SetToBag({HandshakeId})
  /\ nHandshakes' = nHandshakes + 1
  /\ ensure' = NoEnsure
  /\ received' = NoAnswer
  /\ anyFailure' = TRUE
  /\ UNCHANGED <<enabledTools, directVars>>
  /\ lastEvent' = Event("rpcFail", r)
  /\ UNCHANGED <<now, http, resp, nCalls>>

\* A catch block that resets the session state only if the cached session
\* is still the one the failed POST was sent with.
RpcFailIfCurrent(r, err) ==
  /\ pc[r] = "awaitRpc"
  /\ LET after == IF sessionId = inv[r].header
                  THEN Invalidate(mcpInitialized, sessionId)
                  ELSE [initialized |-> mcpInitialized, session |-> sessionId]
     IN  /\ mcpInitialized' = after.initialized
         /\ sessionId' = after.session
         /\ sessionFrom' = IF after.session = sessionId THEN sessionFrom ELSE 0
  /\ lastOkHandshake' = IF sessionId = inv[r].header
                      THEN [handshake |-> 0, session |-> Undefined]
                      ELSE lastOkHandshake
  /\ pc' = [pc EXCEPT ![r] = "done"]
  /\ inv' = [q \in Procs |->
       IF q = r
       THEN [inv[q] EXCEPT !.rpcResult = "failed", !.header = Undefined,
                           !.upstream = err.status,
                           !.discardedNewer =
                              (sessionId # inv[r].header
                               /\ sessionFrom > inv[r].headerFrom)]
       ELSE IF pc[q] = "awaitRpc"
            THEN [inv[q] EXCEPT !.invalidated = TRUE] ELSE inv[q]]
  /\ resp' = [resp EXCEPT ![r] = ErrorResult(err.message)]
  /\ posted' = NoPost
  /\ ensure' = NoEnsure
  /\ received' = NoAnswer
  /\ anyFailure' = TRUE
  /\ UNCHANGED <<enabledTools, directVars>>
  /\ lastEvent' = Event("rpcFail", r)
  /\ UNCHANGED <<now, http, sentIds, nCalls, nHandshakes>>

\* The RPC POST of r fails: lines 127-138 reset the session state and
\* rethrow, and the route handler answers 500 with error.message.
RpcFail(r, err) ==
  /\ pc[r] = "awaitRpc"
  /\ LET after == Invalidate(mcpInitialized, sessionId)
     IN  /\ mcpInitialized' = after.initialized
         /\ sessionId' = after.session
         /\ sessionFrom' = IF after.session = sessionId THEN sessionFrom ELSE 0
  /\ lastOkHandshake' = [handshake |-> 0, session |-> Undefined]
  /\ pc' = [pc EXCEPT ![r] = "done"]
  /\ inv' = [q \in Procs |->
       IF q = r
       THEN [inv[q] EXCEPT !.rpcResult = "failed", !.header = Undefined,
                           !.upstream = err.status,
                           !.discardedNewer =
                              (sessionId # inv[r].header
                               /\ sessionFrom > inv[r].headerFrom)]
       ELSE IF pc[q] = "awaitRpc"
            THEN [inv[q] EXCEPT !.invalidated = TRUE] ELSE inv[q]]
  /\ resp' = [resp EXCEPT ![r] = ErrorResult(err.message)]
  /\ posted' = NoPost
  /\ ensure' = NoEnsure
  /\ received' = NoAnswer
  /\ anyFailure' = TRUE
  /\ UNCHANGED <<enabledTools, directVars>>
  /\ lastEvent' = Event("rpcFail", r)
  /\ UNCHANGED <<now, http, sentIds, nCalls, nHandshakes>>

\* A liveness route that pings the upstream before it answers.
HealthPingsUpstream(r) ==
  /\ r = FreeSlot
  /\ nCalls < MaxCalls
  /\ http' = [http EXCEPT ![r] = HttpReq("GET /health", "", EmptyObj)]
  /\ resp' = [resp EXCEPT ![r] = HealthResult]
  /\ pc' = [pc EXCEPT ![r] = "done"]
  /\ inv' = [inv EXCEPT ![r] = NoInvocation]
  /\ nCalls' = nCalls + 1
  /\ posted' = RpcPost(r, [method |-> "ping", params |-> EmptyObj], now, sessionId)
  /\ sentIds' = sentIds (+) SetToBag({now})
  /\ received' = NoAnswer
  /\ UNCHANGED <<enabledTools, anyFailure, directVars>>
  /\ lastEvent' = Event("health", r)
  /\ UNCHANGED <<mcpInitialized, sessionId, now, sessionFrom,
                 lastOkHandshake, ensure, nHandshakes>>

\* GET /health (lines 142-144): answered at once, nothing else is touched.
Health(r) ==
  /\ r = FreeSlot
  /\ nCalls < MaxCalls
  /\ http' = [http EXCEPT ![r] = HttpReq("GET /health", "", EmptyObj)]
  /\ resp' = [resp EXCEPT ![r] = HealthResult]
  /\ pc' = [pc EXCEPT ![r] = "done"]
  /\ inv' = [inv EXCEPT ![r] = NoInvocation]
  /\ nCalls' = nCalls + 1
  /\ posted' = NoPost
  /\ received' = NoAnswer
  /\ UNCHANGED <<enabledTools, anyFailure, directVars>>
  /\ lastEvent' = Event("health", r)
  /\ UNCHANGED <<mcpInitialized, sessionId, now, sentIds, sessionFrom,
                 lastOkHandshake, ensure, nHandshakes>>

\* The clock advances by one millisecond.
Tick ==
  /\ now < StartMillis + MaxTicks
  /\ now' = now + 1
  /\ UNCHANGED <<mcpInitialized, sessionId, pc, http, resp, posted, sentIds, inv,
                 sessionFrom, lastOkHandshake, ensure, nCalls, nHandshakes,
                 lastEvent, received, enabledTools, anyFailure, directVars>>

\* ------------------------------------ the direct-first variant (part_001)
wrapperVars == <<mcpInitialized, sessionId, pc, http, resp, posted, sentIds, inv,
                 sessionFrom, lastOkHandshake, ensure, nCalls, nHandshakes,
                 lastEvent, received, enabledTools, anyFailure>>

\* The class [a-f0-9-] of line 33, which has no /i flag.
LowerHexChars == HexChars \ {"A"}

RECURSIVE LowerHexPrefix(_)
LowerHexPrefix(s) ==
  IF s = <<>> \/ Head(s) \notin LowerHexChars THEN <<>>
  ELSE <<Head(s)>> \o LowerHexPrefix(Tail(s))

\* Text bodies of a 2xx answer to GET /sse: the separator that follows the
\* word 'sessionId' ("" when the body does not hold the word) and the
\* characters after it.
SseBodies ==
  { [sep |-> "=", after |-> <<"c", "A">>],
    [sep |-> ":", after |-> <<"c", "3">>],
    [sep |-> "", after |-> <<>>] }

\* Line 33: sseResponse.data.match(/sessionId=([a-f0-9-]+)/), the captured
\* group or <<>> when nothing matches.
MatchDirectSessionId(body) ==
  IF body.sep = "=" THEN LowerHexPrefix(body.after) ELSE <<>>

\* Lines 33-41 and 49: sessionId after initializeMCPSession got a 2xx.
SessionAfterSse(session, body) ==
  IF MatchDirectSessionId(body) # <<>> THEN Str(MatchDirectSessionId(body))
  ELSE session

\* Lines 42-47: sessionId after the GET /sse failed or timed out.
SessionAfterSseError(millis, frac) ==
  Template(millis, Substring(ToString36(frac), 2, 15))

DirectFreeSlot ==
  LET free == {q \in Procs : directPc[q] \in {"idle", "done"}}
  IN  IF free = {} THEN 0 ELSE CHOOSE q \in free : \A p \in free : q <= p

\* An HTTP request arrives: callMCPServer posts to /mcp without a session
\* (lines 58-68).
DirectStart(r, h) ==
  /\ r = DirectFreeSlot
  /\ directCalls < MaxCalls
  /\ directHttp' = [directHttp EXCEPT ![r] = h]
  /\ directResp' = [directResp EXCEPT ![r] = NoResponse]
  /\ directPc' = [directPc EXCEPT ![r] = "awaitDirect"]
  /\ directSent' = DirectPost(r, RouteCall(h), now)
  /\ directInv' = [directInv EXCEPT ![r] =
       [NoDirectInvocation EXCEPT
          !.afterFail = (directEvent.kind = "messagesFail"),
          !.directResult = "pending", !.nDirect = 1]]
  /\ directEvent' = Event("start", r)
  /\ directCalls' = directCalls + 1
  /\ UNCHANGED <<directSessionId, directBoot, wrapperVars, now>>

\* The direct POST is answered with a 2xx (lines 70-71).
DirectOk(r, data) ==
  /\ directPc[r] = "awaitDirect"
  /\ directPc' = [directPc EXCEPT ![r] = "done"]
  /\ directResp' = [directResp EXCEPT ![r] = JsonResult(data)]
  /\ directInv' = [directInv EXCEPT ![r] = [@ EXCEPT !.directResult = "ok"]]
  /\ directSent' = NoDirectRequest
  /\ directEvent' = Event("directOk", r)
  /\ UNCHANGED <<directSessionId, directBoot, directHttp, directCalls,
                 wrapperVars, now>>

\* A fallback that calls initializeMCPSession whether or not a sessionId is
\* cached.
DirectFailAlwaysAcquires(r, err) ==
  /\ directPc[r] = "awaitDirect"
  /\ directPc' = [directPc EXCEPT ![r] = "awaitSse"]
  /\ directSent' = SseGet(r)
  /\ directInv' = [directInv EXCEPT ![r] =
       [@ EXCEPT !.directResult = "failed", !.nSse = 1]]
  /\ directEvent' = Event("directFail", r)
  /\ UNCHANGED <<directSessionId, directBoot, directHttp, directResp,
                 directCalls, wrapperVars, now>>

\* The direct POST fails (lines 72-88): with no sessionId cached the
\* invocation calls initializeMCPSession, which sends GET /sse; with one
\* cached it posts to /messages at once.
DirectFail(r, err) ==
  /\ directPc[r] = "awaitDirect"
  /\ IF ~Truthy(directSessionId)
     THEN /\ directPc' = [directPc EXCEPT ![r] = "awaitSse"]
          /\ directSent' = SseGet(r)
          /\ directInv' = [directInv EXCEPT ![r] =
               [@ EXCEPT !.directResult = "failed", !.nSse = 1]]
     ELSE /\ directPc' = [directPc EXCEPT ![r] = "awaitMessages"]
          /\ directSent' =
               MessagesPost(r, RouteCall(directHttp[r]), now, directSessionId)
          /\ directInv' = [directInv EXCEPT ![r] =
               [@ EXCEPT !.directResult = "failed", !.cached = TRUE,
                         !.nMessages = 1]]
  /\ directEvent' = Event("directFail", r)
  /\ UNCHANGED <<directSessionId, directBoot, directHttp, directResp,
                 directCalls, wrapperVars, now>>

\* The GET /sse of the invocation's initializeMCPSession is answered with a
\* 2xx: lines 33-41 keep the matched id if there is one, and callMCPServer
\* goes on to post to /messages with whatever sessionId holds (line 81).
SseOk(r, body) ==
  /\ directPc[r] = "awaitSse"
  /\ directSessionId' = SessionAfterSse(directSessionId, body)
  /\ directPc' = [directPc EXCEPT ![r] = "awaitMessages"]
  /\ directSent' =
       MessagesPost(r, RouteCall(directHttp[r]), now, directSessionId')
  /\ directInv' = [directInv EXCEPT ![r] = [@ EXCEPT !.nMessages = 1]]
  /\ directEvent' = Event("sseOk", r)
  /\ UNCHANGED <<directBoot, directHttp, directResp, directCalls,
                 wrapperVars, now>>

\* That GET /sse fails or runs into its timeout of 10 s: lines 42-47
\* generate an id, and callMCPServer goes on to post to /messages.
SseFail(r, err, frac) ==
  /\ directPc[r] = "awaitSse"
  /\ directSessionId' = SessionAfterSseError(now, frac)
  /\ directPc' = [directPc EXCEPT ![r] = "awaitMessages"]
  /\ directSent' =
       MessagesPost(r, RouteCall(directHttp[r]), now, directSessionId')
  /\ directInv' = [directInv EXCEPT ![r] = [@ EXCEPT !.nMessages = 1]]
  /\ directEvent' = Event("sseFail", r)
  /\ UNCHANGED <<directBoot, directHttp, directResp, directCalls,
                 wrapperVars, now>>

\* The POST to /messages is answered with a 2xx (line 90).
MessagesOk(r, data) ==
  /\ directPc[r] = "awaitMessages"
  /\ directPc' = [directPc EXCEPT ![r] = "done"]
  /\ directResp' = [directResp EXCEPT ![r] = JsonResult(data)]
  /\ directSent' = NoDirectRequest
  /\ directEvent' = Event("messagesOk", r)
  /\ UNCHANGED <<directSessionId, directBoot, directHttp, directInv,
                 directCalls, wrapperVars, now>>

\* The POST to /messages fails (lines 91-97): the error is logged and
\* rethrown, and the route answers 500 with its message.
MessagesFail(r, err) ==
  /\ directPc[r] = "awaitMessages"
  /\ directPc' = [directPc EXCEPT ![r] = "done"]
  /\ directResp' = [directResp EXCEPT ![r] = ErrorResult(err.message)]
  /\ directSent' = NoDirectRequest
  /\ directEvent' = Event("messagesFail", r)
  /\ UNCHANGED <<directSessionId, directBoot, directHttp, directInv,
                 directCalls, wrapperVars, now>>

\* The GET /sse of the startup call (line 237) is answered with a 2xx.
BootSseOk(body) ==
  /\ directBoot = "awaitSse"
  /\ directBoot' = "done"
  /\ directSessionId' = SessionAfterSse(directSessionId, body)
  /\ directSent' = NoDirectRequest
  /\ directEvent' = Event("bootOk", 0)
  /\ UNCHANGED <<directPc, directHttp, directResp, directInv, directCalls,
                 wrapperVars, now>>

\* The GET /sse of the startup call fails or times out.
BootSseFail(err, frac) ==
  /\ directBoot = "awaitSse"
  /\ directBoot' = "done"
  /\ directSessionId' = SessionAfterSseError(now, frac)
  /\ directSent' = NoDirectRequest
  /\ directEvent' = Event("bootFail", 0)
  /\ UNCHANGED <<directPc, directHttp, directResp, directInv, directCalls,
                 wrapperVars, now>>

Next ==
  \/ \E r \in Procs, h \in ConcurrentRequests : Start(r, h)
  \/ \E r \in Procs, res \in ConcurrentInitResponses, frac \in ConcurrentFractions :
       HandshakeOk(r, res, frac)
  \/ \E r \in Procs, err \in ConcurrentErrors : HandshakeFail(r, err)
  \/ \E r \in Procs, data \in RpcResponses : RpcOk(r, data)
  \/ \E r \in Procs, err \in ConcurrentErrors : RpcFail(r, err)
  \/ \E r \in Procs : Health(r)
  \/ Tick

Spec == Init /\ [][Next]_vars

\* The same program under the scheduling the runtime guarantees: time passes.
\* Neither axios.post call sets a timeout, so nothing obliges an awaited
\* upstream answer (or failure) to arrive.
LiveSpec == Spec /\ WF_vars(Tick)

\* One request at a time, over the whole route table.
RouteNext ==
  \/ \E h \in HttpRequests : Start(1, h)
  \/ \E res \in InitResponses, frac \in RandomFractions : HandshakeOk(1, res, frac)
  \/ \E err \in UpstreamErrors : HandshakeFail(1, err)
  \/ \E data \in RpcResponses : RpcOk(1, data)
  \/ \E err \in UpstreamErrors : RpcFail(1, err)
  \/ Health(1)
  \/ Tick

RouteSpec == RouteInit /\ [][RouteNext]_vars

\* The direct-first variant, with requests in flight together.  All steps
\* happen within one millisecond: the variant reads the clock only to number
\* its POSTs and to name a generated id.
DirectNext ==
  \/ \E r \in Procs, h \in ConcurrentRequests : DirectStart(r, h)
  \/ \E r \in Procs, data \in RpcResponses : DirectOk(r, data)
  \/ \E r \in Procs, err \in UpstreamErrors : DirectFail(r, err)
  \/ \E r \in Procs, body \in SseBodies : SseOk(r, body)
  \/ \E r \in Procs, err \in UpstreamErrors, frac \in ConcurrentFractions :
       SseFail(r, err, frac)
  \/ \E r \in Procs, data \in RpcResponses : MessagesOk(r, data)
  \/ \E r \in Procs, err \in UpstreamErrors : MessagesFail(r, err)
  \/ \E body \in SseBodies : BootSseOk(body)
  \/ \E err \in UpstreamErrors, frac \in RandomFractions : BootSseFail(err, frac)

DirectSpec == Init /\ [][DirectNext]_vars

DirectTypeOK ==
  /\ directSessionId.kind \in {"null", "string", "session_"}
  /\ directBoot \in {"awaitSse", "done"}
  /\ \A r \in Procs :
       /\ directPc[r] \in {"idle", "awaitDirect", "awaitSse", "awaitMessages", "done"}
       /\ directInv[r].nDirect <= 1
  /\ directCalls \in 0..MaxCalls
  /\ directSent.kind \in {"none", "mcp", "sse", "messages"}

TypeOK ==
  /\ mcpInitialized \in BOOLEAN
  /\ sessionId.kind \in {"null", "string", "session_"}
  /\ now \in StartMillis..(StartMillis + MaxTicks)
  /\ \A r \in Procs : pc[r] \in {"idle", "awaitInit", "awaitRpc", "done"}
  /\ nCalls \in 0..MaxCalls
  /\ nHandshakes \in 0..MaxCalls

\* ------------------------------------------------------------------ claims
Ready == mcpInitialized /\ Truthy(sessionId)
Uninitialized == ~mcpInitialized /\ sessionId = Null
InFlight(r) == pc[r] \in {"awaitInit", "awaitRpc"}

\* C1: a callMCPServer invocation that starts right after an RPC POST has
\* failed, with no other request in between, sends a new 'initialize' POST
\* before its own RPC POST, and its RPC POST carries the session identifier
\* that this new handshake obtained, not the one the failed call was sent with.
InvalidateAndRetry ==
  \A r \in Procs :
    inv[r].afterFail =>
      /\ ~inv[r].sawReady
      /\ inv[r].nHandshake = 1
      /\ inv[r].handshake # 0
      /\ inv[r].nRpc > 0 =>
           /\ inv[r].initResult = "true"
           /\ inv[r].headerFrom = inv[r].handshake
           /\ inv[r].headerFrom # inv[r].staleFrom
           /\ lastEvent = Event("hsOk", r) =>
                (posted.proc = r /\ posted.session = lastOkHandshake.session)

InvalidateAndRetryWitness ==
  \E r \in Procs :
    /\ inv[r].afterFail
    /\ inv[r].staleFrom # 0
    /\ inv[r].nRpc = 1
    /\ inv[r].headerFrom = inv[r].handshake

\* C2: when the 'initialize' POST fails, initializeMCPClient still returns
\* success and leaves the manager initialized with a locally generated
\* session identifier session_<digits>_<alphanumeric>.
FallbackGuarantee ==
  lastEvent.kind = "hsFail" =>
    /\ inv[lastEvent.proc].initResult = "true"
    /\ mcpInitialized
    /\ sessionId.kind = "session_"

\* C3: on every route but /health, when the upstream answers the RPC POST
\* with a failure status the HTTP caller gets status 500 with a body
\* {error: <non-empty message>}, and when callMCPServer rethrows the session
\* state is mcpInitialized = false and sessionId = null.
FailureSurfacing ==
  /\ \A r \in Procs :
       (pc[r] = "done" /\ inv[r].rpcResult = "failed" /\ inv[r].upstream # 0) =>
         /\ http[r].route # "GET /health"
         /\ resp[r].status = 500
         /\ resp[r].kind = "error"
         /\ resp[r].error # ""
  /\ lastEvent.kind = "rpcFail" => (mcpInitialized = FALSE /\ sessionId = Null)

FailureSurfacingWitness ==
  /\ lastEvent = Event("rpcFail", 1)
  /\ http[1].route = "PUT /task/:taskId"
  /\ inv[1].upstream = 503
  /\ inv[1].sawReady
  /\ resp[1].status = 500

\* C4: a request that finds the session initialized sends no handshake, and
\* two consecutive initializeMCPClient calls with no RPC failure in between
\* send at most one handshake together.
IdempotentFastPath ==
  /\ \A r \in Procs : inv[r].sawReady => inv[r].nHandshake = 0
  /\ ensure.pairHandshakes <= 1

\* C5: the session state is either UNINITIALIZED or READY; only a successful
\* handshake makes it READY and only a failed RPC POST makes it
\* UNINITIALIZED; an invocation sends its RPC POST without a handshake of its
\* own exactly when it observed READY at its start.
SessionStateMachineStep ==
  /\ (~Ready /\ Ready') =>
       \E r \in Procs : pc[r] = "awaitInit" /\ pc'[r] = "awaitRpc"
  /\ (~Uninitialized /\ Uninitialized') =>
       \E r \in Procs : pc[r] = "awaitRpc" /\ pc'[r] = "done" /\ resp'[r].status = 500
SessionStateMachine ==
  /\ [](Ready \/ Uninitialized)
  /\ [](\A r \in Procs : inv[r].nRpc > 0 => (inv[r].nHandshake = 0 <=> inv[r].sawReady))
  /\ [][SessionStateMachineStep]_vars

SessionStateMachineWitness ==
  \E r \in Procs :
    /\ lastEvent = Event("rpcFail", r)
    /\ inv[r].sawReady
    /\ inv[r].nRpc = 1
    /\ Uninitialized

\* C6: when initializeMCPClient reports failure, callMCPServer fails without
\* sending an RPC POST for that invocation and the route answers 500 with
\* {error: 'Failed to initialize MCP client'}.
InitFailurePropagation ==
  /\ \A r \in Procs :
       inv[r].initResult = "false" =>
         /\ pc[r] = "done"
         /\ inv[r].nRpc = 0
         /\ resp[r].status = 500
         /\ resp[r].kind = "error"
         /\ resp[r].error = "Failed to initialize MCP client"
  /\ lastEvent.kind = "hsFail" => posted.kind = "none"

InitFailurePropagationWitness ==
  \E r \in Procs :
    /\ lastEvent = Event("hsFail", r)
    /\ inv[r].initResult = "false"
    /\ resp[r].status = 500

\* C7: every JSON-RPC request sent upstream carries an id distinct from the id
\* of every other request the process has sent.
UniqueSequenceIds ==
  \A id \in BagToSet(sentIds) : CopiesIn(id, sentIds) = 1

\* C8: one callMCPServer invocation sends at most one handshake POST and at
\* most one RPC POST, and the step in which its RPC POST fails sends nothing.
NoAutomaticRetry ==
  /\ \A r \in Procs : inv[r].nHandshake <= 1 /\ inv[r].nRpc <= 1
  /\ \A r \in Procs : inv[r].rpcResult = "failed" => pc[r] = "done"
  /\ lastEvent.kind = "rpcFail" => posted.kind = "none"

NoAutomaticRetryWitness ==
  \E r \in Procs :
    /\ lastEvent = Event("rpcFail", r)
    /\ inv[r].nHandshake = 1
    /\ inv[r].nRpc = 1
    /\ pc[r] = "done"

\* C9: every RPC POST carries in 'mcp-session-id' a non-null session
\* identifier, the one cached in sessionId when the POST is sent.
SessionHeader ==
  /\ posted.kind = "rpc" => (Truthy(posted.session) /\ posted.session = sessionId)
  /\ \A r \in Procs :
       pc[r] = "awaitRpc" => (Truthy(inv[r].header) /\ inv[r].headerFrom # 0)

SessionHeaderWitness ==
  /\ posted.kind = "rpc"
  /\ lastEvent.kind = "hsOk"
  /\ \E q \in Procs : q # posted.proc /\ pc[q] = "awaitRpc"
                      /\ inv[q].header # posted.session

\* C10: each request that observes UNINITIALIZED sends a handshake of its
\* own, and while no RPC POST fails the state is READY with the sessionId set
\* by the handshake that completed last.
LastWriterWins ==
  /\ \A r \in Procs :
       (inv[r].initResult # "none" /\ ~inv[r].sawReady) =>
         (inv[r].nHandshake = 1 /\ inv[r].handshake # 0)
  /\ \A r, q \in Procs :
       (r # q /\ inv[r].handshake # 0) => inv[r].handshake # inv[q].handshake
  /\ lastOkHandshake.handshake # 0 =>
       /\ mcpInitialized
       /\ sessionId = lastOkHandshake.session
       /\ sessionFrom = lastOkHandshake.handshake

LastWriterWinsWitness ==
  \E r, q \in Procs :
    /\ inv[r].initResult = "true" /\ inv[q].initResult = "true"
    /\ inv[r].handshake < inv[q].handshake
    /\ lastOkHandshake.handshake = inv[r].handshake
    /\ lastEvent = Event("hsOk", r)
    /\ pc[q] = "awaitRpc"
    /\ sessionId # inv[q].header
    /\ sessionId = inv[r].header

\* C11: for POST /task with body B the one envelope sent upstream has
\* jsonrpc '2.0', method 'tools/call', params.name 'create_task' and
\* params.arguments equal to B; for GET /tools, which passes no params, it has
\* method 'tools/list' and params {}.
PassThroughFidelity ==
  /\ posted.kind = "rpc" =>
       /\ posted.jsonrpc = "2.0"
       /\ http[posted.proc].route = "POST /task" =>
            /\ posted.method = "tools/call"
            /\ DOMAIN posted.params = {"name", "arguments"}
            /\ posted.params.name = "create_task"
            /\ posted.params.arguments = http[posted.proc].body
       /\ http[posted.proc].route = "GET /tools" =>
            (posted.method = "tools/list" /\ posted.params = EmptyObj)
  /\ \A r \in Procs : inv[r].nRpc <= 1

PassThroughFidelityWitness ==
  /\ posted.kind = "rpc"
  /\ lastEvent = Event("hsOk", 1)
  /\ http[1].route = "POST /task"
  /\ posted.params.arguments = [name |-> "Test", list_id |-> "123"]

\* C12: for every tool name T and body B, POST /call/T produces an upstream
\* RPC call with method 'tools/call' and params {name: T, arguments: B}; no
\* tool name is rejected locally, also when ENABLED_TOOLS is set: every such
\* request reaches the upstream, and an error it is answered with is the
\* upstream's or the failed handshake's.
GenericDispatch ==
  /\ (posted.kind = "rpc" /\ http[posted.proc].route = "POST /call/:toolName") =>
       /\ posted.method = "tools/call"
       /\ posted.params = [name |-> http[posted.proc].param,
                           arguments |-> http[posted.proc].body]
  /\ \A r \in Procs :
       (pc[r] # "idle" /\ http[r].route = "POST /call/:toolName") =>
         /\ inv[r].nHandshake + inv[r].nRpc >= 1
         /\ resp[r].kind = "error" =>
              resp[r].error \in {e.message : e \in UpstreamErrors}
                                  \cup {InitFailedMessage}
         /\ (pc[r] = "done" /\ inv[r].rpcResult = "ok") => resp[r].kind = "result"

GenericDispatchWitness ==
  /\ enabledTools = "get_task,create_task"
  /\ posted.kind = "rpc"
  /\ http[1].route = "POST /call/:toolName"
  /\ posted.params = [name |-> "foo_bar", arguments |-> [x |-> "1"]]

\* The step in which a successful answer to an RPC POST is handled.
FormatToleranceStep ==
  \A r \in Procs :
    (pc[r] = "awaitRpc" /\ lastEvent' = Event("rpcOk", r)) =>
      /\ pc'[r] = "done"
      /\ resp'[r] = [status |-> 200, kind |-> "result", error |-> "",
                     result |-> received'.data]
      /\ mcpInitialized' = mcpInitialized
      /\ sessionId' = sessionId

\* C13: when the upstream answers an RPC POST successfully with a text body
\* holding the marker 'event: message', callMCPServer does not fail, does not
\* invalidate the session, and returns that body unaltered; a JSON body is
\* returned as-is too.
FormatTolerance ==
  /\ [](\A r \in Procs :
          lastEvent = Event("rpcOk", r) =>
            /\ received.kind = "rpc"
            /\ received.data \in RpcResponses
            /\ resp[r].status = 200
            /\ resp[r].result = received.data)
  /\ [][FormatToleranceStep]_vars

FormatToleranceWitness ==
  \E r \in Procs :
    /\ lastEvent = Event("rpcOk", r)
    /\ received.data.type = "string"
    /\ received.data.sse
    /\ resp[r].result = TextData(TRUE, FALSE, <<>>)
    /\ Ready

\* C14: session acquisition is guarded by a bounded timeout: a request whose
\* handshake is awaited eventually gets past it, with success or failure, and
\* is eventually answered, also when the upstream never answers the handshake.
BoundedAcquisition ==
  \A r \in Procs : (pc[r] = "awaitInit") ~> (pc[r] = "done")

\* C15: POST /tasks/search forwards the request body unchanged as the
\* arguments of a 'tools/call' to get_workspace_tasks (no parameter added,
\* forced or truncated) and returns the upstream's result to the HTTP caller
\* as received.
SearchPassThrough ==
  /\ (posted.kind = "rpc" /\ http[posted.proc].route = "POST /tasks/search") =>
       /\ posted.method = "tools/call"
       /\ posted.params.name = "get_workspace_tasks"
       /\ DOMAIN posted.params.arguments = DOMAIN http[posted.proc].body
       /\ posted.params.arguments = http[posted.proc].body
  /\ \A r \in Procs :
       (lastEvent = Event("rpcOk", r) /\ http[r].route = "POST /tasks/search") =>
         resp[r] = [status |-> 200, kind |-> "result", error |-> "",
                    result |-> received.data]

SearchPassThroughWitness ==
  /\ lastEvent = Event("rpcOk", 1)
  /\ http[1] = HttpReq("POST /tasks/search", "",
                       [detail_level |-> "detailed", limit |-> "100"])
  /\ resp[1].result = TextData(TRUE, FALSE, <<>>)

\* The sources of a session id: a non-empty header, a token the pattern
\* captures in a string body, and the ids line 64 can generate at millis.
HeaderIdAvailable(v) == v.kind = "string" /\ v.tok # <<>>

BodyIdAvailable(data) ==
  data.type = "string" /\ data.marker /\ HexPrefix(data.after) # <<>>

GeneratedIds(millis) ==
  { Template(millis, Substring(ToString36(f), 2, 15)) : f \in RandomFractions }

\* C16: after a successful handshake the cached sessionId is the first
\* available of: header 'mcp-session-id'; header 'x-session-id'; the token
\* matched by the sessionId[=:] pattern in a string body; a locally generated
\* session_<millis>_<random>.  In each case it is non-empty and the state is
\* READY.
SessionIdSelection ==
  \A r \in Procs :
    lastEvent = Event("hsOk", r) =>
      /\ received.kind = "initialize"
      /\ IF HeaderIdAvailable(received.h1) THEN sessionId = received.h1
         ELSE IF HeaderIdAvailable(received.h2) THEN sessionId = received.h2
         ELSE IF BodyIdAvailable(received.data)
              THEN sessionId = Str(HexPrefix(received.data.after))
         ELSE sessionId \in GeneratedIds(posted.id)
      /\ sessionId.kind \in {"string", "session_"}
      /\ sessionId # Str(<<>>)
      /\ mcpInitialized

\* The header 'mcp-session-id' is empty and 'x-session-id' is taken although
\* the body holds a token as well.
SessionIdSelectionWitness ==
  /\ lastEvent = Event("hsOk", 1)
  /\ received.h1 = Str(<<>>)
  /\ BodyIdAvailable(received.data)
  /\ sessionId = Str(<<"b", "2">>)
  /\ mcpInitialized

\* C17 as stated: an invocation whose handshake and RPC POST the upstream
\* answers successfully returns the upstream's response and the state is READY
\* afterwards.
Recovery ==
  \A r \in Procs :
    lastEvent = Event("rpcOk", r) =>
      /\ resp[r] = [status |-> 200, kind |-> "result", error |-> "",
                    result |-> received.data]
      /\ Ready

\* C17: no sequence of handshake failures and RPC failures leaves the bridge
\* unusable: an invocation that starts in the UNINITIALIZED state sends a
\* handshake, and one whose handshake and RPC POST the upstream answers
\* successfully returns the upstream's response; the state is READY afterwards
\* unless the RPC POST of another invocation failed while this one's own was
\* awaited.
RecoveryUnlessInvalidated ==
  \A r \in Procs :
    /\ (pc[r] # "idle" /\ http[r].route # "GET /health" /\ ~inv[r].sawReady) =>
         inv[r].nHandshake = 1
    /\ lastEvent = Event("rpcOk", r) =>
         /\ resp[r] = [status |-> 200, kind |-> "result", error |-> "",
                       result |-> received.data]
         /\ Ready \/ inv[r].invalidated

\* A request that arrives right after a failed RPC POST is served and leaves
\* the state READY.
RecoveryWitness ==
  \E r \in Procs :
    /\ lastEvent = Event("rpcOk", r)
    /\ inv[r].afterFail
    /\ inv[r].nHandshake = 1
    /\ ~inv[r].invalidated
    /\ resp[r].status = 200
    /\ Ready

\* The step in which a GET /health request is handled.
HealthIsLocalStep ==
  \A r \in Procs :
    (lastEvent' = Event("health", r) /\ nCalls' = nCalls + 1) =>
      /\ mcpInitialized' = mcpInitialized
      /\ sessionId' = sessionId
      /\ sentIds' = sentIds
      /\ nHandshakes' = nHandshakes
      /\ posted'.kind = "none"
      /\ \A q \in Procs \ {r} : pc'[q] = pc[q] /\ inv'[q] = inv[q]

\* C18: a GET /health request sends nothing upstream (neither handshake nor
\* RPC), is answered with the liveness response whatever the session state and
\* whatever requests are in flight, and leaves sessionId and mcpInitialized
\* unchanged.
HealthIsLocal ==
  /\ [](\A r \in Procs :
          lastEvent = Event("health", r) =>
            /\ posted = NoPost
            /\ pc[r] = "done"
            /\ resp[r] = HealthResult
            /\ inv[r].nHandshake + inv[r].nRpc = 0)
  /\ []((nCalls < MaxCalls /\ FreeSlot # 0) => ENABLED Health(FreeSlot))
  /\ [][HealthIsLocalStep]_vars

\* /health is answered while the handshake of another request is awaited.
HealthIsLocalWitness ==
  \E r, q \in Procs :
    /\ lastEvent = Event("health", r)
    /\ resp[r] = HealthResult
    /\ pc[q] = "awaitInit"
    /\ Uninitialized

\* C19: in the direct-first variant, when the POST to /messages fails the
\* cached sessionId is set to absent, so that the next invocation that falls
\* back to /messages acquires a session through initializeMCPSession instead
\* of reusing the stale id.
DirectInvalidation ==
  \A r \in Procs :
    /\ directEvent = Event("messagesFail", r) => directSessionId = Null
    /\ (directInv[r].afterFail /\ directInv[r].nMessages = 1) =>
         directInv[r].nSse = 1

\* C20: in the direct-first variant, initializeMCPSession leaves a session id
\* behind whether GET /sse failed or its body held no sessionId token, so
\* every POST to /messages carries a non-null sessionId in its URL.
DirectFallbackGeneration ==
  /\ directEvent.kind \in {"sseOk", "sseFail", "bootOk", "bootFail"} =>
       Truthy(directSessionId)
  /\ directSent.kind = "messages" => Truthy(directSent.session)

\* C21: at every point where another request can interleave (every await on
\* a network call), mcpInitialized is true if and only if sessionId is a
\* non-null, non-empty value.
FlagMatchesSession ==
  mcpInitialized <=>
    (sessionId # Null /\ sessionId # Undefined /\ sessionId # Str(<<>>))

\* A handshake has just made the state READY while the handshake of another
\* request is still awaited.
FlagMatchesSessionWitness ==
  \E r, q \in Procs :
    /\ lastEvent = Event("hsOk", r)
    /\ pc[r] = "awaitRpc"
    /\ pc[q] = "awaitInit"
    /\ mcpInitialized
    /\ sessionId.kind \in {"string", "session_"}

\* The step in which the failure of a handshake is handled.
FailedHandshakeFrameStep ==
  \A r \in Procs :
    (pc[r] = "awaitInit" /\ lastEvent' = Event("hsFail", r)) =>
      /\ mcpInitialized' = mcpInitialized
      /\ sessionId' = sessionId
      /\ pc'[r] = "done"
      /\ resp'[r] = [status |-> 500, kind |-> "error",
                     error |-> "Failed to initialize MCP client",
                     result |-> JsonData]
      /\ inv'[r].nRpc = 0
      /\ posted'.kind = "none"
      /\ sentIds' = sentIds

\* C22: a failed handshake changes neither sessionId nor mcpInitialized (if
\* the handshake of a concurrent request has made the state READY meanwhile,
\* it stays READY with that session), and the call whose handshake failed is
\* rejected with 'Failed to initialize MCP client' without sending its RPC
\* POST.
FailedHandshakeFrame == [][FailedHandshakeFrameStep]_vars

\* The handshake of r has failed after the handshake of q had made the state
\* READY, and the state is still READY with the session q's handshake set.
FailedHandshakeFrameWitness ==
  \E r, q \in Procs :
    /\ r # q
    /\ lastEvent = Event("hsFail", r)
    /\ inv[r].nRpc = 0
    /\ resp[r].error = InitFailedMessage
    /\ inv[q].initResult = "true"
    /\ sessionFrom = inv[q].handshake
    /\ mcpInitialized
    /\ sessionId = lastOkHandshake.session
    /\ Truthy(sessionId)

\* The step in which a successful answer to an RPC POST is handled, or in
\* which a request arrives while the state is READY.
SuccessfulCallFrameStep ==
  /\ (pc[1] = "awaitRpc" /\ lastEvent' = Event("rpcOk", 1)) =>
       (mcpInitialized' = mcpInitialized /\ sessionId' = sessionId)
  /\ (Ready /\ lastEvent' = Event("start", 1)) =>
       /\ posted'.kind = "rpc"
       /\ posted'.session = sessionId
       /\ nHandshakes' = nHandshakes
       /\ mcpInitialized' = mcpInitialized /\ sessionId' = sessionId

\* C23: a successful upstream RPC call leaves sessionId and mcpInitialized
\* unchanged, so with sequential requests and no failure the same session
\* identifier, acquired by a single handshake, is sent in the header of every
\* subsequent RPC POST.
SuccessfulCallFrame ==
  /\ []((~anyFailure /\ posted.kind = "rpc") =>
          /\ nHandshakes = 1
          /\ lastOkHandshake.handshake = 1
          /\ posted.session = lastOkHandshake.session
          /\ Ready /\ sessionId = posted.session)
  /\ []((~anyFailure /\ lastEvent.kind = "rpcOk") =>
          (Ready /\ sessionId = lastOkHandshake.session /\ nHandshakes = 1))
  /\ [][SuccessfulCallFrameStep]_vars

\* The second of two requests, served without any failure, posts with the
\* session the only handshake acquired.
SuccessfulCallFrameWitness ==
  /\ ~anyFailure
  /\ nCalls = 2
  /\ nHandshakes = 1
  /\ posted.kind = "rpc"
  /\ inv[1].nHandshake = 0
  /\ lastEvent = Event("start", 1)
  /\ posted.session = lastOkHandshake.session

\* C24: the failure of an RPC POST invalidates whatever session is cached
\* when the failure is handled, also a newer one that the handshake of a
\* concurrent request has set meanwhile and with which no call has failed;
\* the requests in flight with the discarded session are not aborted: their
\* POST stays as sent, and when the upstream answers it they are answered
\* with its result.
RaceInvalidation ==
  \A r \in Procs :
    /\ lastEvent = Event("rpcFail", r) =>
         /\ ~mcpInitialized /\ sessionId = Null /\ sessionFrom = 0
         /\ pc[r] = "done" /\ resp[r].status = 500
    /\ (pc[r] = "awaitRpc" /\ inv[r].invalidated) =>
         /\ Truthy(inv[r].header)
         /\ inv[r].nRpc = 1 /\ inv[r].rpcResult = "pending"
    /\ (pc[r] = "done" /\ inv[r].invalidated /\ inv[r].rpcResult = "ok") =>
         /\ resp[r].status = 200 /\ resp[r].kind = "result"
         /\ inv[r].nRpc = 1

\* The RPC POST of r has failed while the cached session was the one the
\* later handshake of q had set; it is discarded although q's POST, sent with
\* it, is still awaited.
RaceInvalidationWitness ==
  \E r, q \in Procs :
    /\ r # q
    /\ lastEvent = Event("rpcFail", r)
    /\ inv[r].discardedNewer
    /\ inv[q].headerFrom > inv[r].headerFrom
    /\ pc[q] = "awaitRpc"
    /\ inv[q].invalidated
    /\ Uninitialized

\* The steps of one callMCPServer invocation of the direct-first variant.
DirectFirstOrderStep ==
  \A r \in Procs :
    /\ (directPc[r] # "awaitMessages" /\ directPc'[r] = "awaitMessages") =>
         /\ directPc[r] \in {"awaitDirect", "awaitSse"}
         /\ directInv[r].nDirect = 1
         /\ directInv[r].nMessages = 0
         /\ directSent'.kind = "messages" /\ directSent'.proc = r
    /\ (directPc[r] # "awaitSse" /\ directPc'[r] = "awaitSse") =>
         /\ directPc[r] = "awaitDirect"
         /\ directSessionId \in {Null, Undefined, Str(<<>>)}
         /\ directInv[r].nSse = 0
    /\ (directPc[r] = "awaitDirect" /\ directPc'[r] = "awaitMessages") =>
         directSessionId \notin {Null, Undefined, Str(<<>>)}
    /\ (directPc[r] = "awaitDirect" /\ directEvent' = Event("directOk", r)) =>
         /\ directSessionId' = directSessionId
         /\ directPc'[r] = "done"
         /\ directResp'[r].status = 200

\* C25: in the direct-first variant one callMCPServer invocation posts to
\* /messages only after its own direct POST to /mcp has failed, sends at most
\* two RPC POSTs in total, runs initializeMCPSession at most once and only
\* when no sessionId is cached, and a successful direct POST neither reads
\* nor modifies sessionId.
DirectFirstOrder ==
  /\ [](\A r \in Procs :
          /\ directInv[r].nMessages >= 1 =>
               (directInv[r].nDirect = 1 /\ directInv[r].directResult = "failed")
          /\ directInv[r].nDirect + directInv[r].nMessages <= 2
          /\ directInv[r].nSse <= 1
          /\ directInv[r].nSse = 1 =>
               (directInv[r].directResult = "failed" /\ ~directInv[r].cached)
          /\ directInv[r].directResult = "ok" =>
               (directInv[r].nSse = 0 /\ directInv[r].nMessages = 0))
  /\ [](directSent.kind = "mcp" => directSent.session = Undefined)
  /\ [][DirectFirstOrderStep]_vars

\* The direct POST of r has failed while a sessionId was cached: r posts to
\* /messages with it and does not call initializeMCPSession.
DirectFirstOrderWitness ==
  \E r \in Procs :
    /\ directEvent = Event("directFail", r)
    /\ directInv[r].cached
    /\ directInv[r].nSse = 0
    /\ directInv[r].nDirect = 1 /\ directInv[r].nMessages = 1
    /\ directSent.kind = "messages"
    /\ directSent.session = directSessionId
    /\ Truthy(directSessionId)
====
